---------------------------- MODULE Spec2Model ----------------------------
(***************************************************************************)
(* A model of the shared transport of the APIC-EM client                   *)
(* (src/apic-em/apicem.go): Client construction and options, NewRequest,   *)
(* Client.Do with its deferred clean-up, CheckResponse and addOptions.     *)
(*                                                                         *)
(* Go values are modelled as records tagged by a "kind" field, so that nil *)
(* and the different error types are comparable values.  A URL string is a *)
(* sequence of tokens (an authority token, "/" separators, path segments)  *)
(* followed by a raw query, a sequence of key/value pairs in the order in  *)
(* which they are written.                                                 *)
(***************************************************************************)
EXTENDS Integers, Sequences, FiniteSets, TLC

VARIABLES
    client,     \* the shared *Client: its fields
    calls,      \* caller -> the state of its current NewRequest/Do call
    newIn,      \* New: the option list handed to the constructor
    newOut,     \* New: what the constructor returned and what it applied
    reqIn,      \* NewRequest: the arguments of the latest call
    reqOut,     \* NewRequest: what the latest call returned
    aoIn,       \* addOptions: the arguments
    aoOut       \* addOptions: what it returned

vars == <<client, calls, newIn, newOut, reqIn, reqOut, aoIn, aoOut>>

(***************************************************************************)
(* Bounds of the model.                                                    *)
(***************************************************************************)
\* the longest option list handed to New
MaxOpts == 3
\* the longest raw query of a URL handed to addOptions
MaxQuery == 2
\* the largest page number / page size of a ListOptions value
MaxPage == 1

(***************************************************************************)
(* Program constants.                                                      *)
(***************************************************************************)
\* io.CopyN(ioutil.Discard, resp.Body, 512)
DrainLimit == 512
\* CheckResponse: c >= 200 && c <= 299
StatusOKLow == 200
StatusOKHigh == 299

libraryVersion == "0.1.0"
userAgent == "apicem/0.1.0"
mediaType == "application/json"
authorizationToken == ""

Min(a, b) == IF a <= b THEN a ELSE b

(***************************************************************************)
(* nil values                                                              *)
(***************************************************************************)
NilErr == [kind |-> "nil"]
NilResp == [kind |-> "nil"]
NilReq == [kind |-> "nil"]
NilClient == [kind |-> "nil"]
NilCallback == "nil"

(***************************************************************************)
(* net/url: strings, parsing, resolution, query encoding                   *)
(***************************************************************************)
\* a token no URL parser accepts (an invalid percent escape)
BadToken == "%zz"

defaultBaseURL == [toks |-> <<"https://sandboxapic.cisco.com", "/", "api">>, rawq |-> <<>>]

Authorities == {"https://sandboxapic.cisco.com", "https://apic.example"}

RECURSIVE LastSlash(_)
\* strings.LastIndex(path, "/") on a tokenised path; 0 when there is none
LastSlash(path) ==
    IF path = <<>> THEN 0
    ELSE IF path[Len(path)] = "/" THEN Len(path)
    ELSE LastSlash(SubSeq(path, 1, Len(path) - 1))

\* url.Parse: the authority (when the string starts with one), the path and
\* the raw query, which Parse does not validate; an invalid escape in the
\* authority or path is an error
urlParse(s) ==
    IF \E i \in 1..Len(s.toks) : s.toks[i] = BadToken
    THEN [url |-> [kind |-> "nil"], err |-> [kind |-> "url.Error", URL |-> s]]
    ELSE LET abs == s.toks # <<>> /\ s.toks[1] \in Authorities
         IN [url |-> [kind |-> "URL",
                      Host |-> IF abs THEN s.toks[1] ELSE "",
                      Path |-> IF abs THEN Tail(s.toks) ELSE s.toks,
                      RawQuery |-> s.rawq],
             err |-> NilErr]

\* (*URL).String: authority, path (with the "/" String inserts between a
\* host and a relative path), then "?" and the raw query
urlString(u) ==
    [toks |-> (IF u.Host # "" THEN <<u.Host>> ELSE <<>>)
              \o (IF u.Host # "" /\ u.Path # <<>> /\ u.Path[1] # "/"
                  THEN <<"/">> ELSE <<>>)
              \o u.Path,
     rawq |-> u.RawQuery]

\* resolvePath of net/url: an empty reference keeps the base path, a rooted
\* one replaces it, a relative one replaces what follows the base's last "/";
\* a non-empty result is rooted
resolvePath(base, ref) ==
    LET full == IF ref = <<>> THEN base
                ELSE IF ref[1] # "/" THEN SubSeq(base, 1, LastSlash(base)) \o ref
                ELSE ref
    IN IF full = <<>> THEN <<>>
       ELSE IF full[1] = "/" THEN full ELSE <<"/">> \o full

\* (*URL).ResolveReference
ResolveReference(base, ref) ==
    IF ref.Host # "" THEN ref
    ELSE [kind |-> "URL",
          Host |-> base.Host,
          Path |-> resolvePath(base.Path, ref.Path),
          RawQuery |-> IF ref.Path = <<>> /\ ref.RawQuery = <<>>
                       THEN base.RawQuery ELSE ref.RawQuery]

\* the keys of a query, in the order in which Values.Encode sorts them
QueryKeys == <<"page", "per_page", "sort">>

\* url.QueryUnescape on the raw values of the model; a bad escape is an error
Unescape(v) ==
    CASE v = "a+b" -> "a b"
      [] v = "a%20b" -> "a b"
      [] OTHER -> v

\* url.QueryEscape
Escape(v) == IF v = "a b" THEN "a+b" ELSE v

RECURSIVE ParseQuery(_)
\* (*URL).Query: url.ParseQuery with its error dropped; a pair that fails to
\* unescape is skipped, the values of a key are kept in order
ParseQuery(rawq) ==
    IF rawq = <<>> THEN [k \in {} |-> <<>>]
    ELSE LET rest == ParseQuery(SubSeq(rawq, 1, Len(rawq) - 1))
             k == rawq[Len(rawq)][1]
             v == rawq[Len(rawq)][2]
         IN IF v = BadToken THEN rest
            ELSE [x \in DOMAIN rest \cup {k} |->
                    IF x = k
                    THEN (IF k \in DOMAIN rest THEN rest[k] ELSE <<>>) \o <<Unescape(v)>>
                    ELSE rest[x]]

RECURSIVE EncodeFrom(_, _)
\* Values.Encode: the keys in sorted order, each value escaped
EncodeFrom(values, i) ==
    IF i > Len(QueryKeys) THEN <<>>
    ELSE LET k == QueryKeys[i]
         IN (IF k \in DOMAIN values
             THEN [j \in 1..Len(values[k]) |-> <<k, Escape(values[k][j])>>]
             ELSE <<>>)
            \o EncodeFrom(values, i + 1)

Encode(values) == EncodeFrom(values, 1)

\* strconv.Itoa on the page numbers of the model
Itoa(n) == <<"0", "1", "2", "3", "4">>[n + 1]

(***************************************************************************)
(* addOptions (and query.Values of go-querystring, which it calls)         *)
(***************************************************************************)
\* the options values: an untyped nil interface, a nil *ListOptions, a
\* *ListOptions, and a value that is no struct
UntypedNil == [kind |-> "untyped-nil"]
NilPtr == [kind |-> "nil-ptr"]
NonStruct == [kind |-> "non-struct"]
ListOptions == [kind : {"ptr"}, Page : 0..MaxPage, PerPage : 0..MaxPage]

\* query.Values: a nil pointer encodes to no values, a struct to its url-tagged
\* fields (omitempty), anything else is an error.  For an untyped nil the
\* library returns either no values or an error, by its version: nilOK.
queryValues(opt, nilOK) ==
    CASE opt.kind = "nil-ptr" -> [values |-> [k \in {} |-> <<>>], err |-> NilErr]
      [] opt.kind = "untyped-nil" ->
            IF nilOK THEN [values |-> [k \in {} |-> <<>>], err |-> NilErr]
            ELSE [values |-> [k \in {} |-> <<>>], err |-> [kind |-> "query.Error"]]
      [] opt.kind = "ptr" ->
            [values |-> [k \in (IF opt.Page # 0 THEN {"page"} ELSE {})
                                \cup (IF opt.PerPage # 0 THEN {"per_page"} ELSE {}) |->
                            IF k = "page" THEN <<Itoa(opt.Page)>> ELSE <<Itoa(opt.PerPage)>>],
             err |-> NilErr]
      [] OTHER -> [values |-> [k \in {} |-> <<>>], err |-> [kind |-> "query.Error"]]

\* reflect.ValueOf(opt): v.Kind() == reflect.Ptr && v.IsNil()
IsNilPtr(opt) == opt.kind = "nil-ptr"

addOptions(s, opt, nilOK) ==
    IF IsNilPtr(opt) THEN [s |-> s, err |-> NilErr]
    ELSE LET p == urlParse(s)
         IN IF p.err # NilErr THEN [s |-> s, err |-> p.err]
            ELSE LET origValues == ParseQuery(p.url.RawQuery)
                     q == queryValues(opt, nilOK)
                     merged == [k \in DOMAIN origValues \cup DOMAIN q.values |->
                                   IF k \in DOMAIN q.values THEN q.values[k]
                                   ELSE origValues[k]]
                 IN IF q.err # NilErr THEN [s |-> s, err |-> q.err]
                    ELSE [s |-> urlString([p.url EXCEPT !.RawQuery = Encode(merged)]),
                          err |-> NilErr]

(***************************************************************************)
(* Client, NewClient, New and the client options                           *)
(***************************************************************************)
\* NewClient: a nil httpClient is replaced by http.DefaultClient; every
\* service handle is a view of c.common, which points back at the client
NewClient(httpClient) ==
    [kind |-> "Client",
     client |-> IF httpClient = "nil" THEN "http.DefaultClient" ELSE httpClient,
     BaseURL |-> urlParse(defaultBaseURL).url,
     UserAgent |-> <<userAgent>>,
     Authorization |-> authorizationToken,
     common |-> "c",
     services |-> "&c.common",
     onRequestCompleted |-> NilCallback]

\* SetBaseURL(bu): the closure it returns, applied to c
SetBaseURL(bu, c) ==
    LET p == urlParse(bu)
    IN IF p.err # NilErr THEN [c |-> c, err |-> p.err]
       ELSE [c |-> [c EXCEPT !.BaseURL = p.url], err |-> NilErr]

\* SetUserAgent(ua): fmt.Sprintf("%s+%s", ua, c.UserAgent); the user agent is
\* kept as the sequence of its "+"-separated parts
SetUserAgent(ua, c) ==
    [c |-> [c EXCEPT !.UserAgent = <<ua>> \o c.UserAgent], err |-> NilErr]

\* opt(c) for a ClientOpt value
applyOpt(opt, c) ==
    IF opt.op = "SetBaseURL" THEN SetBaseURL(opt.arg, c) ELSE SetUserAgent(opt.arg, c)

RECURSIVE NewLoop_IgnoresError(_, _, _, _)
\* NewLoop with a bug: a failing option is skipped and the loop goes on
NewLoop_IgnoresError(c, opts, i, applied) ==
    IF i > Len(opts) THEN [c |-> c, err |-> NilErr, applied |-> applied]
    ELSE LET r == applyOpt(opts[i], c)
         IN NewLoop_IgnoresError(IF r.err # NilErr THEN c ELSE r.c, opts, i + 1,
                                 Append(applied, i))

RECURSIVE NewLoop(_, _, _, _)
\* for _, opt := range opts: the client so far, the options already called
NewLoop(c, opts, i, applied) ==
    IF i > Len(opts) THEN [c |-> c, err |-> NilErr, applied |-> applied]
    ELSE LET r == applyOpt(opts[i], c)
         IN IF r.err # NilErr
            THEN [c |-> NilClient, err |-> r.err, applied |-> Append(applied, i)]
            ELSE NewLoop(r.c, opts, i + 1, Append(applied, i))

New(httpClient, opts) == NewLoop(NewClient(httpClient), opts, 1, <<>>)

(***************************************************************************)
(* NewRequest                                                              *)
(***************************************************************************)
\* strings.ToUpper on the method names of the model
ToUpper(method) ==
    CASE method = "get" -> "GET"
      [] method = "Post" -> "POST"
      [] method = "de lete" -> "DE LETE"
      [] OTHER -> method

\* net/http validMethod: a method is a token ("" stands for GET)
validMethod(method) == method \in {"", "GET", "POST"}

\* json.NewEncoder(buf).Encode(body): the JSON text and the newline Encode
\* appends; a value JSON cannot represent is an error
jsonEncode(body) ==
    IF body.kind = "chan"
    THEN [buf |-> <<>>, err |-> [kind |-> "json.UnsupportedTypeError"]]
    ELSE [buf |-> <<body.json, "\n">>, err |-> NilErr]

NilBody == [kind |-> "nil"]

\* AuthHeader with a bug: the package-level authorizationToken, with which
\* the client was built, decides instead of the field
AuthHeader_PackageToken(c) == IF authorizationToken # "" THEN {"X-Auth-Token"} ELSE {}

\* the X-Auth-Token header of NewRequest: added when c.Authorization != ""
AuthHeader(c) == IF c.Authorization # "" THEN {"X-Auth-Token"} ELSE {}

NewRequest(c, method, urlStr, body) ==
    LET m == ToUpper(method)
        p == urlParse(urlStr)
    IN IF p.err # NilErr THEN [req |-> NilReq, err |-> p.err]
       ELSE LET u == ResolveReference(c.BaseURL, p.url)
                e == IF body # NilBody THEN jsonEncode(body)
                     ELSE [buf |-> <<>>, err |-> NilErr]
            IN IF e.err # NilErr THEN [req |-> NilReq, err |-> e.err]
               ELSE IF ~validMethod(m)
               THEN [req |-> NilReq, err |-> [kind |-> "http.invalid-method"]]
               ELSE [req |-> [kind |-> "Request",
                              Method |-> IF m = "" THEN "GET" ELSE m,
                              URL |-> urlString(u),
                              Body |-> e.buf,
                              Header |->
                                 [h \in {"Content-Type", "Accept", "User-Agent"}
                                        \cup AuthHeader(c) |->
                                    CASE h = "Content-Type" -> <<mediaType>>
                                      [] h = "Accept" -> <<mediaType>>
                                      [] h = "User-Agent" -> <<c.UserAgent>>
                                      [] OTHER -> <<c.Authorization>>]],
                     err |-> NilErr]

(***************************************************************************)
(* Responses, bodies and encoding/json                                     *)
(***************************************************************************)
\* What a response body holds and how long it is.  "object" is a JSON object
\* of the expected shape, "mistyped" valid JSON with a field of the wrong
\* type, "garbage" no JSON at all.
Contents ==
    { [text |-> "empty", len |-> 0],
      [text |-> "object", len |-> 40],
      [text |-> "object", len |-> 600],
      [text |-> "mistyped", len |-> 40],
      [text |-> "garbage", len |-> 40],
      [text |-> "garbage", len |-> 600] }

Statuses == {199, 200, 204, 299, 300, 404, 500}

\* resp.Body as the transport hands it over: nothing read, not closed
NewBody(content, readFails, closeFails) ==
    [text |-> content.text, len |-> content.len, readFails |-> readFails,
     closeFails |-> closeFails, pos |-> 0, closes |-> 0]

NilBodyHandle == [text |-> "nil", len |-> 0, readFails |-> FALSE,
                  closeFails |-> FALSE, pos |-> 0, closes |-> 0]

\* one entry of a call's trace
Ev(op, n) == [op |-> op, n |-> n]

\* &ErrorResponse{HTTPResponse: r}
NewErrorResponse(r) ==
    [kind |-> "ErrorResponse", HTTPResponse |-> r, Message |-> "",
     Errors |-> <<>>, TrackingID |-> ""]

\* json.Unmarshal(data, errorResponse): a syntax error leaves the target
\* alone; a type error is reported after the well-typed fields are stored
UnmarshalError(text, e) ==
    CASE text = "object" ->
            [v |-> [e EXCEPT !.Message = "not found", !.Errors = <<"d1">>,
                             !.TrackingID = "t1"],
             err |-> NilErr]
      [] text = "mistyped" ->
            [v |-> [e EXCEPT !.Message = "not found", !.TrackingID = "t1"],
             err |-> [kind |-> "json.UnmarshalTypeError"]]
      [] OTHER -> [v |-> e, err |-> [kind |-> "json.SyntaxError"]]

\* the second json.Unmarshal of CheckResponse and what CheckResponse returns
\* after it
CheckSecondUnmarshal(e1, text) ==
    LET u2 == UnmarshalError(text, e1)
    IN IF u2.err # NilErr THEN u2.err ELSE u2.v

\* CheckResponse(r): the error it returns and the body as it leaves it (the
\* fmt.Println of the fresh ErrorResponse writes to standard output only)
CheckResponse(r, body) ==
    IF r.StatusCode >= StatusOKLow /\ r.StatusCode <= StatusOKHigh
    THEN [err |-> NilErr, body |-> body, log |-> <<>>]
    ELSE LET e0 == NewErrorResponse(r)
         IN IF body.readFails
            THEN \* ioutil.ReadAll fails: neither Unmarshal runs
                 [err |-> e0, body |-> body, log |-> <<Ev("readall", 0)>>]
            ELSE LET read == body.len - body.pos
                     b1 == [body EXCEPT !.pos = body.len]
                     \* data != nil: the first Unmarshal, its error dropped
                     e1 == UnmarshalError(body.text, e0).v
                 IN [err |-> IF read > 0 THEN CheckSecondUnmarshal(e1, body.text)
                             ELSE e1,
                     body |-> b1,
                     log |-> <<Ev("readall", read)>>]

\* newResponse
newResponse(r) == [kind |-> "*Response", Response |-> r, Monitor |-> ""]

\* the caller's destination v, before Do
NoDest == [kind |-> "unset"]

\* io.Copy(w, resp.Body)
CopyBody(body, v) ==
    IF body.readFails
    THEN [err |-> [kind |-> "read-error"], body |-> body, dest |-> NoDest,
          log |-> <<Ev("copy", 0)>>]
    ELSE IF v = "failing-writer"
    THEN \* the first chunk read holds the whole body; writing it fails
         [err |-> [kind |-> "write-error"],
          body |-> [body EXCEPT !.pos = body.len],
          dest |-> NoDest,
          log |-> <<Ev("copy", body.len - body.pos)>>]
    ELSE [err |-> NilErr, body |-> [body EXCEPT !.pos = body.len],
          dest |-> [kind |-> "bytes", text |-> body.text, n |-> body.len - body.pos],
          log |-> <<Ev("copy", body.len - body.pos)>>]

\* json.NewDecoder(resp.Body).Decode(v)
DecodeBody(body, v) ==
    IF body.readFails
    THEN [err |-> [kind |-> "read-error"], body |-> body, dest |-> NoDest,
          log |-> <<Ev("decode", 0)>>]
    ELSE LET b1 == [body EXCEPT !.pos = body.len]
             lg == <<Ev("decode", body.len - body.pos)>>
         IN CASE body.text = "object" /\ body.pos = 0 ->
                    [err |-> NilErr, body |-> b1,
                     dest |-> [kind |-> "value", text |-> "object", n |-> body.len],
                     log |-> lg]
              [] body.text = "mistyped" /\ body.pos = 0 ->
                    [err |-> [kind |-> "json.UnmarshalTypeError"], body |-> b1,
                     dest |-> [kind |-> "value", text |-> "partial", n |-> body.len],
                     log |-> lg]
              [] body.text = "garbage" /\ body.pos = 0 ->
                    [err |-> [kind |-> "json.SyntaxError"], body |-> b1,
                     dest |-> NoDest, log |-> lg]
              [] OTHER ->
                    [err |-> [kind |-> "io.EOF"], body |-> b1, dest |-> NoDest,
                     log |-> lg]

(***************************************************************************)
(* Client.Do, one step at a time                                           *)
(*                                                                         *)
(* A call record holds the locals of one caller: the request, the          *)
(* destination v and what the transport will answer (plan), resp and its   *)
(* body, the wrapped response, the local err, the values of the return     *)
(* statement (ret), what was stored through v (dest), the callback         *)
(* invocations and the trace of transport and body operations.             *)
(***************************************************************************)
NoArgs == [kind |-> "none"]
NoPlan == [kind |-> "none"]
NoRet == [kind |-> "none"]

InitCall ==
    [pc |-> "idle", args |-> NoArgs, req |-> NilReq, plan |-> NoPlan,
     resp |-> NilResp, body |-> NilBodyHandle, response |-> NilResp,
     err |-> NilErr, ret |-> NoRet, dest |-> NoDest, cbCalls |-> <<>>,
     log |-> <<>>]

\* the caller enters Do(req, v)
StepBegin(call, req, plan) ==
    [call EXCEPT !.pc = "transport", !.req = req, !.plan = plan]

\* StepTransport with a bug: a failed transport call is made a second time
StepTransport_Retry(call) ==
    LET out == call.plan.out
        lg == Append(call.log, Ev("transport", 0))
    IN IF out.kind = "error"
       THEN [call EXCEPT !.pc = "done", !.err = out.err,
                         !.ret = [resp |-> NilResp, err |-> out.err],
                         !.log = Append(lg, Ev("transport", 0))]
       ELSE [call EXCEPT !.pc = "callback",
                         !.resp = [kind |-> "http.Response", StatusCode |-> out.status,
                                   Request |-> call.req],
                         !.body = NewBody(out.content, out.readFails, out.closeFails),
                         !.log = lg]

\* resp, err := c.client.Do(req); if err != nil { return nil, err }
StepTransport(call) ==
    LET out == call.plan.out
        lg == Append(call.log, Ev("transport", 0))
    IN IF out.kind = "error"
       THEN [call EXCEPT !.pc = "done", !.err = out.err,
                         !.ret = [resp |-> NilResp, err |-> out.err], !.log = lg]
       ELSE [call EXCEPT !.pc = "callback",
                         !.resp = [kind |-> "http.Response", StatusCode |-> out.status,
                                   Request |-> call.req],
                         !.body = NewBody(out.content, out.readFails, out.closeFails),
                         !.log = lg]

\* StepCallback with a bug: the callback runs on 2xx responses only
StepCallback_Only2xx(call, c) ==
    IF c.onRequestCompleted # NilCallback /\ call.resp.StatusCode \in 200..299
    THEN [call EXCEPT !.pc = "check",
                      !.cbCalls = Append(call.cbCalls,
                                         [fn |-> c.onRequestCompleted,
                                          req |-> call.req, resp |-> call.resp]),
                      !.log = Append(call.log, Ev("callback", 0))]
    ELSE [call EXCEPT !.pc = "check"]

\* if c.onRequestCompleted != nil { c.onRequestCompleted(req, resp) }
StepCallback(call, c) ==
    IF c.onRequestCompleted # NilCallback
    THEN [call EXCEPT !.pc = "check",
                      !.cbCalls = Append(call.cbCalls,
                                         [fn |-> c.onRequestCompleted,
                                          req |-> call.req, resp |-> call.resp]),
                      !.log = Append(call.log, Ev("callback", 0))]
    ELSE [call EXCEPT !.pc = "check"]

\* StepCheck with a bug: the error of CheckResponse does not end the call
StepCheck_NoEarlyReturn(call) ==
    LET ck == CheckResponse(call.resp, call.body)
    IN [call EXCEPT !.pc = "decode", !.response = newResponse(call.resp),
                    !.err = ck.err, !.body = ck.body, !.log = call.log \o ck.log]

\* the two defers are registered; response := newResponse(resp);
\* err = CheckResponse(resp); if err != nil { return response, err }
StepCheck(call) ==
    LET ck == CheckResponse(call.resp, call.body)
        response == newResponse(call.resp)
        c1 == [call EXCEPT !.response = response, !.err = ck.err,
                           !.body = ck.body, !.log = call.log \o ck.log]
    IN IF ck.err # NilErr
       THEN [c1 EXCEPT !.pc = "drain", !.ret = [resp |-> response, err |-> ck.err]]
       ELSE [c1 EXCEPT !.pc = "decode"]

\* DecodeFailure with a bug: the err declared in the branch is taken for the
\* outer err, which is nil there
DecodeFailure_OuterErr(call, branchErr) == [resp |-> NilResp, err |-> call.err]

\* what the decode branch returns when io.Copy or Decode fails: its own err
\* (declared with := in the branch), and no response
DecodeFailure(call, branchErr) == [resp |-> NilResp, err |-> branchErr]

\* if v != nil { io.Copy or Decode, return nil, err on failure };
\* return response, err
StepDecode(call) ==
    LET v == call.plan.v
    IN IF v = "nil"
       THEN [call EXCEPT !.pc = "drain",
                         !.ret = [resp |-> call.response, err |-> call.err]]
       ELSE LET r == IF v \in {"writer", "failing-writer"}
                     THEN CopyBody(call.body, v) ELSE DecodeBody(call.body, v)
                c1 == [call EXCEPT !.pc = "drain", !.body = r.body, !.dest = r.dest,
                                   !.log = call.log \o r.log]
            IN IF r.err # NilErr
               THEN [c1 EXCEPT !.ret = DecodeFailure(call, r.err)]
               ELSE [c1 EXCEPT !.ret = [resp |-> call.response, err |-> call.err]]

\* the deferred function registered last, which runs first:
\* io.CopyN(ioutil.Discard, resp.Body, 512); resp.Body.Close()
StepDrain(call) ==
    LET b == call.body
        n == IF b.readFails THEN 0 ELSE Min(DrainLimit, b.len - b.pos)
    IN [call EXCEPT !.pc = "close",
                    !.body = [b EXCEPT !.pos = b.pos + n, !.closes = b.closes + 1],
                    !.log = call.log \o <<Ev("drain", n), Ev("close", 0)>>]

\* the deferred function registered first, which runs last:
\* if rerr := resp.Body.Close(); err == nil { err = rerr }
\* Do's results are unnamed, so the store to err does not reach ret
StepClose(call) ==
    LET b == call.body
        rerr == IF b.closeFails THEN [kind |-> "close-error"] ELSE NilErr
    IN [call EXCEPT !.pc = "done",
                    !.body = [b EXCEPT !.closes = b.closes + 1],
                    !.err = IF call.err = NilErr THEN rerr ELSE call.err,
                    !.log = Append(call.log, Ev("close", 0))]

(***************************************************************************)
(* Inputs of the model                                                     *)
(***************************************************************************)
\* the number of concurrent callers of one shared Client
NCallers == 2

Callers == 1..NCallers

Tokens == {"", "tok1", "tok2"}

Callbacks == {NilCallback, "cb1", "cb2"}

\* URL strings handed to NewRequest and SetBaseURL
RelURL == [toks |-> <<"network-device">>, rawq |-> <<>>]
RootedURL == [toks |-> <<"/", "v1", "/", "host">>, rawq |-> <<>>]
AbsURL == [toks |-> <<"https://apic.example", "/", "api", "/", "v1", "/">>, rawq |-> <<>>]
BadURL == [toks |-> <<BadToken>>, rawq |-> <<>>]
EmptyURL == [toks |-> <<>>, rawq |-> <<>>]

Methods == {"get", "GET", "Post", "de lete"}

ReqBodies == {NilBody, [kind |-> "struct", json |-> "{payload}"], [kind |-> "chan"]}

\* requests handed to Do
Requests ==
    { NewRequest(NewClient("nil"), "GET", RootedURL, NilBody).req,
      NewRequest([NewClient("nil") EXCEPT !.Authorization = "tok1"], "Post", RelURL,
                 [kind |-> "struct", json |-> "{payload}"]).req }

\* what the transport answers
Outcomes ==
    { [kind |-> "error", err |-> [kind |-> e]] : e \in {"dial-timeout", "tls-failure"} }
    \cup [kind : {"response"}, status : Statuses, content : Contents,
          readFails : BOOLEAN, closeFails : BOOLEAN]

\* the destination v: absent, an io.Writer (whose Write works or fails), or
\* a value to decode into
Dests == {"nil", "writer", "failing-writer", "struct"}

Plans == [v : Dests, out : Outcomes]

\* the calls run concurrently
ConcPlans ==
    { [v |-> "nil", out |-> [kind |-> "error", err |-> [kind |-> "dial-timeout"]]],
      [v |-> "struct",
       out |-> [kind |-> "response", status |-> 200,
                content |-> [text |-> "object", len |-> 600],
                readFails |-> FALSE, closeFails |-> FALSE]],
      [v |-> "struct",
       out |-> [kind |-> "response", status |-> 200,
                content |-> [text |-> "garbage", len |-> 40],
                readFails |-> FALSE, closeFails |-> TRUE]],
      [v |-> "writer",
       out |-> [kind |-> "response", status |-> 404,
                content |-> [text |-> "object", len |-> 40],
                readFails |-> FALSE, closeFails |-> FALSE]] }

ConcArgs ==
    { [method |-> "get", urlStr |-> RelURL, body |-> NilBody],
      [method |-> "Post", urlStr |-> RootedURL, body |-> [kind |-> "struct", json |-> "{payload}"]],
      [method |-> "get", urlStr |-> BadURL, body |-> NilBody] }

\* the shared client of the concurrent callers, configured before they start
ConcClient ==
    [NewClient("nil") EXCEPT !.Authorization = "tok1", !.onRequestCompleted = "cb1"]

NoIn == [kind |-> "none"]
NoOut == [kind |-> "none"]

(***************************************************************************)
(* Actions: Client.Do                                                      *)
(***************************************************************************)
Others == <<newIn, newOut, reqIn, reqOut, aoIn, aoOut>>

\* c.OnRequestCompleted(rc), between calls
OnRequestCompleted(rc) ==
    /\ \A p \in DOMAIN calls : calls[p].pc = "idle"
    /\ client' = [client EXCEPT !.onRequestCompleted = rc]
    /\ UNCHANGED <<calls, Others>>

DoBegin(p) ==
    /\ calls[p].pc = "idle"
    /\ \E req \in Requests, plan \in Plans :
          calls' = [calls EXCEPT ![p] = StepBegin(calls[p], req, plan)]
    /\ UNCHANGED <<client, Others>>

DoTransport(p) ==
    /\ calls[p].pc = "transport"
    /\ calls' = [calls EXCEPT ![p] = StepTransport(calls[p])]
    /\ UNCHANGED <<client, Others>>

DoCallback(p) ==
    /\ calls[p].pc = "callback"
    /\ calls' = [calls EXCEPT ![p] = StepCallback(calls[p], client)]
    /\ UNCHANGED <<client, Others>>

DoCheck(p) ==
    /\ calls[p].pc = "check"
    /\ calls' = [calls EXCEPT ![p] = StepCheck(calls[p])]
    /\ UNCHANGED <<client, Others>>

DoDecode(p) ==
    /\ calls[p].pc = "decode"
    /\ calls' = [calls EXCEPT ![p] = StepDecode(calls[p])]
    /\ UNCHANGED <<client, Others>>

DeferDrain(p) ==
    /\ calls[p].pc = "drain"
    /\ calls' = [calls EXCEPT ![p] = StepDrain(calls[p])]
    /\ UNCHANGED <<client, Others>>

DeferClose(p) ==
    /\ calls[p].pc = "close"
    /\ calls' = [calls EXCEPT ![p] = StepClose(calls[p])]
    /\ UNCHANGED <<client, Others>>

\* Do has returned; the caller goes on to its next call
DoReturn(p) ==
    /\ calls[p].pc = "done"
    /\ calls' = [calls EXCEPT ![p] = InitCall]
    /\ UNCHANGED <<client, Others>>

Init ==
    /\ client = NewClient("nil")
    /\ calls = [p \in {1} |-> InitCall]
    /\ newIn = NoIn /\ newOut = NoOut
    /\ reqIn = NoIn /\ reqOut = NoOut
    /\ aoIn = NoIn /\ aoOut = NoOut

Next ==
    \/ \E rc \in Callbacks : OnRequestCompleted(rc)
    \/ \E p \in DOMAIN calls : DoBegin(p)
    \/ \E p \in DOMAIN calls : DoTransport(p)
    \/ \E p \in DOMAIN calls : DoCallback(p)
    \/ \E p \in DOMAIN calls : DoCheck(p)
    \/ \E p \in DOMAIN calls : DoDecode(p)
    \/ \E p \in DOMAIN calls : DeferDrain(p)
    \/ \E p \in DOMAIN calls : DeferClose(p)
    \/ \E p \in DOMAIN calls : DoReturn(p)

Spec == Init /\ [][Next]_vars

(***************************************************************************)
(* Properties of Client.Do and CheckResponse (specification Spec)          *)
(***************************************************************************)
\* the number of entries of a trace whose operation is in ops
CountOps(log, ops) == Cardinality({i \in 1..Len(log) : log[i].op \in ops})

\* the call has a response and CheckResponse has run on it
Checked(call) == call.pc \in {"decode", "drain", "close", "done"} /\ call.resp # NilResp

\* the call has returned with a response from the transport
Returned(call) == call.pc = "done" /\ call.resp # NilResp

Is2xx(call) == call.resp.StatusCode \in 200..299

\* C1: a response with a status in [200,299] passes CheckResponse without an
\* error and Do goes on to the decode step, where a supplied destination is
\* copied or decoded into exactly once; with any other status Do returns a
\* non-nil error with the wrapped response, and the destination is neither
\* decoded into nor written.
C1_StatusDecidesDecode ==
    \A p \in DOMAIN calls :
        LET call == calls[p]
        IN /\ (Checked(call) /\ Is2xx(call)) =>
                  /\ CountOps(call.log, {"readall"}) = 0
                  /\ call.pc = "decode" => call.err = NilErr /\ call.ret = NoRet
                  /\ call.pc # "decode" =>
                        CountOps(call.log, {"copy", "decode"})
                            = (IF call.plan.v = "nil" THEN 0 ELSE 1)
           /\ (Checked(call) /\ ~Is2xx(call)) =>
                  /\ call.pc # "decode"
                  /\ call.ret.err # NilErr
                  /\ call.ret.resp = newResponse(call.resp)
                  /\ call.dest = NoDest
                  /\ CountOps(call.log, {"copy", "decode"}) = 0

\* C1 witness: a call with a destination to decode into has returned on a
\* non-2xx response
C1_Witness ==
    \E p \in DOMAIN calls :
        /\ Returned(calls[p]) /\ calls[p].resp.StatusCode = 404
        /\ calls[p].plan.v = "struct"
        /\ calls[p].ret.err # NilErr /\ calls[p].dest = NoDest

\* C2: on every non-2xx response, be its body empty, error JSON or no JSON at
\* all, the error of CheckResponse (which Do returns) is the ErrorResponse
\* that references the response; a body that does not parse leaves Message,
\* Errors and TrackingID empty and is no other failure.
C2_AlwaysErrorResponse ==
    \A p \in DOMAIN calls :
        LET call == calls[p]
        IN (/\ Checked(call) /\ ~Is2xx(call)
            /\ call.plan.out.content.text \in {"empty", "object", "garbage"}) =>
              /\ call.ret.err.kind = "ErrorResponse"
              /\ call.ret.err.HTTPResponse = call.resp
              /\ call.plan.out.content.text \in {"garbage", "empty"} =>
                    /\ call.ret.err.Message = ""
                    /\ call.ret.err.Errors = <<>>
                    /\ call.ret.err.TrackingID = ""

\* C3: when the transport returned a response, by the time Do returns the
\* body was drained (at most 512 bytes) and closed, the body was closed
\* exactly once, and the drain-and-close is the last body operation.
C3_DrainCloseOnceLast ==
    \A p \in DOMAIN calls :
        LET call == calls[p]
            n == Len(call.log)
        IN Returned(call) =>
              /\ call.body.closes = 1
              /\ CountOps(call.log, {"drain"}) = 1
              /\ CountOps(call.log, {"close"}) = 1
              /\ n >= 2 /\ call.log[n - 1].op = "drain" /\ call.log[n].op = "close"
              /\ call.log[n - 1].n <= DrainLimit

\* C4: with a callback registered, every call in which the transport returned
\* a response has invoked it exactly once, with the call's request and
\* response, right after the transport call and before any body operation;
\* it is not invoked on a transport failure or when none is registered.
C4_CallbackOnceBeforeBody ==
    \A p \in DOMAIN calls :
        LET call == calls[p]
            past == call.pc \in {"check", "decode", "drain", "close", "done"}
        IN /\ (past /\ call.resp # NilResp /\ client.onRequestCompleted # NilCallback) =>
                  /\ call.cbCalls = <<[fn |-> client.onRequestCompleted,
                                       req |-> call.req, resp |-> call.resp]>>
                  /\ CountOps(call.log, {"callback"}) = 1
                  /\ call.log[1].op = "transport" /\ call.log[2].op = "callback"
           /\ (call.resp = NilResp \/ client.onRequestCompleted = NilCallback) =>
                  /\ call.cbCalls = <<>>
                  /\ CountOps(call.log, {"callback"}) = 0

\* C4 witness: a call on a non-2xx response has returned after the registered
\* callback ran and the body was read
C4_Witness ==
    \E p \in DOMAIN calls :
        /\ Returned(calls[p]) /\ ~Is2xx(calls[p])
        /\ client.onRequestCompleted = "cb2"
        /\ Len(calls[p].cbCalls) = 1
        /\ CountOps(calls[p].log, {"readall"}) = 1

\* C5: the transport is invoked exactly once per call; when it fails Do
\* returns a nil response and the transport's error unchanged, having done
\* nothing else: no callback, no classification, decode, drain or close, and
\* nothing stored through the destination.
C5_TransportFailureImmediate ==
    \A p \in DOMAIN calls :
        LET call == calls[p]
        IN /\ CountOps(call.log, {"transport"})
                = (IF call.pc \in {"idle", "transport"} THEN 0 ELSE 1)
           /\ (call.pc = "done" /\ call.plan.out.kind = "error") =>
                  /\ call.ret = [resp |-> NilResp, err |-> call.plan.out.err]
                  /\ call.log = <<Ev("transport", 0)>>
                  /\ call.cbCalls = <<>>
                  /\ call.dest = NoDest
                  /\ call.body = NilBodyHandle
                  /\ call.response = NilResp

\* C5 witness: a call with a destination has returned on a transport failure
\* while a callback is registered
C5_Witness ==
    \E p \in DOMAIN calls :
        /\ calls[p].pc = "done" /\ calls[p].plan.out.kind = "error"
        /\ calls[p].plan.v = "writer"
        /\ client.onRequestCompleted # NilCallback
        /\ calls[p].ret.err = [kind |-> "tls-failure"]

\* C10: Do never returns a nil response with a nil error: a nil response
\* comes only with the error of the transport, of io.Copy or of Decode, and a
\* nil error only with the wrapped response.
C10_NeverNilNil ==
    \A p \in DOMAIN calls :
        LET call == calls[p]
        IN call.pc = "done" =>
              /\ ~(call.ret.resp = NilResp /\ call.ret.err = NilErr)
              /\ call.ret.resp = NilResp =>
                    \/ call.plan.out.kind = "error" /\ call.ret.err = call.plan.out.err
                    \/ /\ call.resp # NilResp
                       /\ CountOps(call.log, {"copy", "decode"}) = 1
                       /\ call.ret.err.kind \in {"read-error", "write-error", "io.EOF",
                                                 "json.SyntaxError",
                                                 "json.UnmarshalTypeError"}
              /\ call.ret.err = NilErr =>
                    /\ call.resp # NilResp
                    /\ call.ret.resp = newResponse(call.resp)

\* C10 witness: a decode failure on a 2xx response whose body also fails to
\* close has returned
C10_Witness ==
    \E p \in DOMAIN calls :
        /\ Returned(calls[p]) /\ Is2xx(calls[p])
        /\ calls[p].plan.v = "struct"
        /\ calls[p].plan.out.closeFails
        /\ calls[p].ret.resp = NilResp
        /\ calls[p].ret.err = [kind |-> "json.SyntaxError"]

(***************************************************************************)
(* Concurrent callers of one Client (specification SpecConc)               *)
(***************************************************************************)
\* ConcNewRequest with a bug: NewRequest stores the resolved URL in c.BaseURL
\* (c.BaseURL = c.BaseURL.ResolveReference(rel))
ConcNewRequest_StoresBase(p) ==
    /\ calls[p].pc = "idle"
    /\ \E a \in ConcArgs :
          LET r == NewRequest(client, a.method, a.urlStr, a.body)
              rel == urlParse(a.urlStr)
          IN /\ calls' = [calls EXCEPT ![p] =
                             [@ EXCEPT !.pc = IF r.err = NilErr THEN "built" ELSE "reqfailed",
                                       !.args = a, !.req = r.req, !.err = r.err]]
             /\ client' = IF rel.err = NilErr
                          THEN [client EXCEPT !.BaseURL = ResolveReference(client.BaseURL, rel.url)]
                          ELSE client
    /\ UNCHANGED Others

\* a caller builds its request: c.NewRequest(method, urlStr, body)
ConcNewRequest(p) ==
    /\ calls[p].pc = "idle"
    /\ \E a \in ConcArgs :
          LET r == NewRequest(client, a.method, a.urlStr, a.body)
          IN calls' = [calls EXCEPT ![p] =
                          [@ EXCEPT !.pc = IF r.err = NilErr THEN "built" ELSE "reqfailed",
                                    !.args = a, !.req = r.req, !.err = r.err]]
    /\ UNCHANGED <<client, Others>>

\* and hands it to c.Do(req, v)
ConcBegin(p) ==
    /\ calls[p].pc = "built"
    /\ \E plan \in ConcPlans :
          calls' = [calls EXCEPT ![p] = StepBegin(calls[p], calls[p].req, plan)]
    /\ UNCHANGED <<client, Others>>

InitConc ==
    /\ client = ConcClient
    /\ calls = [p \in Callers |-> InitCall]
    /\ newIn = NoIn /\ newOut = NoOut
    /\ reqIn = NoIn /\ reqOut = NoOut
    /\ aoIn = NoIn /\ aoOut = NoOut

NextConc ==
    \/ \E p \in DOMAIN calls : ConcNewRequest(p)
    \/ \E p \in DOMAIN calls : ConcBegin(p)
    \/ \E p \in DOMAIN calls : DoTransport(p)
    \/ \E p \in DOMAIN calls : DoCallback(p)
    \/ \E p \in DOMAIN calls : DoCheck(p)
    \/ \E p \in DOMAIN calls : DoDecode(p)
    \/ \E p \in DOMAIN calls : DeferDrain(p)
    \/ \E p \in DOMAIN calls : DeferClose(p)

SpecConc == InitConc /\ [][NextConc]_vars

(***************************************************************************)
(* New (specification SpecNew)                                             *)
(***************************************************************************)
SeqsUpTo(S, n) == UNION {[1..k -> S] : k \in 0..n}

BadURL2 == [toks |-> <<"/", BadToken>>, rawq |-> <<>>]

\* the ClientOpt values handed to New
OptValues ==
    { [op |-> "SetBaseURL", arg |-> AbsURL],
      [op |-> "SetBaseURL", arg |-> BadURL],
      [op |-> "SetBaseURL", arg |-> BadURL2],
      [op |-> "SetUserAgent", arg |-> "custom/1.0"],
      [op |-> "SetUserAgent", arg |-> "edge/2"] }

NewCall ==
    /\ newOut = NoOut
    /\ newOut' = New(newIn.httpClient, newIn.opts)
    /\ UNCHANGED <<client, calls, newIn, reqIn, reqOut, aoIn, aoOut>>

InitNew ==
    /\ client = NilClient
    /\ calls = [p \in {1} |-> InitCall]
    /\ newIn \in [httpClient : {"nil", "custom"}, opts : SeqsUpTo(OptValues, MaxOpts)]
    /\ newOut = NoOut
    /\ reqIn = NoIn /\ reqOut = NoOut
    /\ aoIn = NoIn /\ aoOut = NoOut

NextNew == NewCall

SpecNew == InitNew /\ [][NextNew]_vars

(***************************************************************************)
(* NewRequest after direct mutation of the fields (specification SpecReq)  *)
(***************************************************************************)
\* c.Authorization = tok
SetAuthorizationField(tok) ==
    /\ client' = [client EXCEPT !.Authorization = tok]
    /\ UNCHANGED <<calls, newIn, newOut, reqIn, reqOut, aoIn, aoOut>>

\* c.BaseURL = u, u a parsed URL
SetBaseURLField(u) ==
    /\ client' = [client EXCEPT !.BaseURL = urlParse(u).url]
    /\ UNCHANGED <<calls, newIn, newOut, reqIn, reqOut, aoIn, aoOut>>

\* req, err := c.NewRequest(method, urlStr, body)
NewRequestCall ==
    /\ reqOut = NoOut
    /\ \E m \in Methods, u \in {RelURL, RootedURL, AbsURL, BadURL, EmptyURL}, b \in ReqBodies :
          /\ reqIn' = [method |-> m, urlStr |-> u, body |-> b]
          /\ reqOut' = NewRequest(client, m, u, b)
    /\ UNCHANGED <<client, calls, newIn, newOut, aoIn, aoOut>>

\* the caller takes the request and goes on
TakeRequest ==
    /\ reqOut # NoOut
    /\ reqIn' = NoIn /\ reqOut' = NoOut
    /\ UNCHANGED <<client, calls, newIn, newOut, aoIn, aoOut>>

InitReq ==
    /\ client = NewClient("nil")
    /\ calls = [p \in {1} |-> InitCall]
    /\ newIn = NoIn /\ newOut = NoOut
    /\ reqIn = NoIn /\ reqOut = NoOut
    /\ aoIn = NoIn /\ aoOut = NoOut

NextReq ==
    \/ \E tok \in Tokens : SetAuthorizationField(tok)
    \/ \E u \in {defaultBaseURL, AbsURL} : SetBaseURLField(u)
    \/ NewRequestCall
    \/ TakeRequest

SpecReq == InitReq /\ [][NextReq]_vars

(***************************************************************************)
(* addOptions (specification SpecOpt)                                      *)
(***************************************************************************)
\* the key=value pairs of the raw queries of the model
Pairs ==
    { <<"sort", "1">>, <<"sort", "a%20b">>, <<"page", "1">>, <<"page", "a%20b">>,
      <<"sort", BadToken>> }

OptURLs ==
    [toks : {RootedURL.toks, AbsURL.toks, BadURL.toks}, rawq : SeqsUpTo(Pairs, MaxQuery)]

Opts == {UntypedNil, NilPtr, NonStruct} \cup ListOptions

AddOptionsCall ==
    /\ aoOut = NoOut
    /\ aoOut' = addOptions(aoIn.s, aoIn.opt, aoIn.nilOK)
    /\ UNCHANGED <<client, calls, newIn, newOut, reqIn, reqOut, aoIn>>

InitOpt ==
    /\ client = NilClient
    /\ calls = [p \in {1} |-> InitCall]
    /\ newIn = NoIn /\ newOut = NoOut
    /\ reqIn = NoIn /\ reqOut = NoOut
    /\ aoIn \in [s : OptURLs, opt : Opts, nilOK : BOOLEAN]
    /\ aoOut = NoOut

NextOpt == AddOptionsCall

SpecOpt == InitOpt /\ [][NextOpt]_vars

(***************************************************************************)
(* Properties of concurrent calls (specification SpecConc)                 *)
(***************************************************************************)
RECURSIVE RunDo(_, _)
\* Do run to its end by one caller alone on client c
RunDo(call, c) ==
    CASE call.pc = "transport" -> RunDo(StepTransport(call), c)
      [] call.pc = "callback" -> RunDo(StepCallback(call, c), c)
      [] call.pc = "check" -> RunDo(StepCheck(call), c)
      [] call.pc = "decode" -> RunDo(StepDecode(call), c)
      [] call.pc = "drain" -> RunDo(StepDrain(call), c)
      [] call.pc = "close" -> RunDo(StepClose(call), c)
      [] OTHER -> call

\* NewRequest(args) and then Do(req, v) run alone on client c with the
\* transport answering as in plan
RunAlone(c, args, plan) ==
    LET r == NewRequest(c, args.method, args.urlStr, args.body)
        built == [InitCall EXCEPT !.args = args, !.req = r.req, !.err = r.err]
    IN IF r.err # NilErr THEN [built EXCEPT !.pc = "reqfailed"]
       ELSE RunDo(StepBegin(built, r.req, plan), c)

\* C9: with callers running NewRequest and Do concurrently on one Client that
\* nobody mutates, no step writes a field of the Client, and every finished
\* call has the request, return values, destination and trace it has when it
\* runs alone with the same arguments and transport answer.
C9_ConcurrentCallsIndependent ==
    /\ client = ConcClient
    /\ \A p \in DOMAIN calls :
          calls[p].pc \in {"done", "reqfailed"} =>
              calls[p] = RunAlone(ConcClient, calls[p].args, calls[p].plan)

\* C9 witness: of two callers with different requests, one has returned from
\* a successful Do while the other is inside the deferred clean-up of a call
\* that failed
C9_Witness ==
    \E p, q \in DOMAIN calls :
        /\ p # q
        /\ calls[p].pc = "done" /\ calls[p].ret.err = NilErr
        /\ calls[p].plan.out.kind = "response"
        /\ calls[q].pc = "close" /\ calls[q].ret.err # NilErr
        /\ calls[q].args # calls[p].args

(***************************************************************************)
(* Properties of New (specification SpecNew)                               *)
(***************************************************************************)
\* the option values that fail: SetBaseURL of a string with a bad escape
FailingOpt(opt) ==
    opt.op = "SetBaseURL" /\ \E i \in 1..Len(opt.arg.toks) : opt.arg.toks[i] = BadToken

\* the user agents of opts[1..n], the last applied first, then the default
RECURSIVE ExpectedUserAgent(_, _)
ExpectedUserAgent(opts, n) ==
    IF n = 0 THEN <<"apicem/0.1.0">>
    ELSE IF opts[n].op = "SetUserAgent"
    THEN <<opts[n].arg>> \o ExpectedUserAgent(opts, n - 1)
    ELSE ExpectedUserAgent(opts, n - 1)

\* C6: New calls the options in argument order; at the first one that fails
\* it returns that option's error and no client, having called no option
\* after it; when none fails it has called each exactly once, in order, and
\* returns the client they configured with a nil error.
C6_NewAppliesInOrder ==
    newOut # NoOut =>
        LET opts == newIn.opts
            n == Len(opts)
            failing == {i \in 1..n : FailingOpt(opts[i])}
        IN IF failing # {}
           THEN LET k == CHOOSE i \in failing : \A j \in failing : i <= j
                IN /\ newOut.c = NilClient
                   /\ newOut.err = [kind |-> "url.Error", URL |-> opts[k].arg]
                   /\ newOut.applied = [i \in 1..k |-> i]
           ELSE /\ newOut.err = NilErr
                /\ newOut.applied = [i \in 1..n |-> i]
                /\ newOut.c # NilClient
                /\ newOut.c.UserAgent = ExpectedUserAgent(opts, n)
                /\ newOut.c.BaseURL.Host =
                      (IF \E i \in 1..n : opts[i].op = "SetBaseURL"
                       THEN "https://apic.example" ELSE "https://sandboxapic.cisco.com")
                /\ newOut.c.client =
                      (IF newIn.httpClient = "nil" THEN "http.DefaultClient"
                       ELSE newIn.httpClient)

\* C6 witness: New has returned the error of a failing second option that is
\* followed by another option
C6_Witness ==
    /\ newOut # NoOut
    /\ Len(newIn.opts) = 3
    /\ newIn.opts[1].op = "SetUserAgent"
    /\ FailingOpt(newIn.opts[2])
    /\ FailingOpt(newIn.opts[3]) /\ newIn.opts[3] # newIn.opts[2]
    /\ newOut.c = NilClient
    /\ newOut.applied = <<1, 2>>

(***************************************************************************)
(* Properties of NewRequest (specification SpecReq)                        *)
(***************************************************************************)
\* C7: every request NewRequest builds has an X-Auth-Token header exactly
\* when the Authorization field is non-empty at the call, with the field's
\* value at the call as its only value, and its URL is resolved against the
\* BaseURL field's value at the call: whatever the fields were before, only
\* their latest values count.
C7_NewRequestUsesCurrentFields ==
    [][(reqOut = NoOut /\ reqOut' # NoOut /\ reqOut'.req # NilReq) =>
          LET req == reqOut'.req
              rel == reqIn'.urlStr.toks
          IN /\ ("X-Auth-Token" \in DOMAIN req.Header) <=> (client.Authorization # "")
             /\ client.Authorization # "" =>
                    req.Header["X-Auth-Token"] = <<client.Authorization>>
             /\ (rel = <<>> \/ rel[1] \notin Authorities) =>
                    req.URL.toks[1] = client.BaseURL.Host
             /\ (rel # <<>> /\ rel[1] = "/") =>
                    req.URL.toks = <<client.BaseURL.Host>> \o rel
             /\ (rel # <<>> /\ rel[1] \notin Authorities /\ rel[1] # "/") =>
                    req.URL.toks = <<client.BaseURL.Host>>
                                   \o SubSeq(client.BaseURL.Path, 1,
                                             LastSlash(client.BaseURL.Path))
                                   \o rel
      ]_vars

\* C7 witness: a request built after both fields were mutated carries the new
\* token and the new base URL
C7_Witness ==
    /\ reqOut # NoOut /\ reqOut.req # NilReq
    /\ client.Authorization = "tok2"
    /\ client.BaseURL.Host = "https://apic.example"
    /\ reqIn.urlStr = RelURL
    /\ reqOut.req.Header["X-Auth-Token"] = <<"tok2">>
    /\ reqOut.req.URL.toks
          = <<"https://apic.example", "/", "api", "/", "v1", "/", "network-device">>

(***************************************************************************)
(* Properties of addOptions (specification SpecOpt)                        *)
(***************************************************************************)
\* C8: with an absent options value, an untyped nil or a nil pointer,
\* addOptions returns its input string unchanged and no error, whatever the
\* string.
C8_AbsentOptionsUnchanged ==
    (aoOut # NoOut /\ aoIn.opt \in {UntypedNil, NilPtr}) =>
        aoOut = [s |-> aoIn.s, err |-> NilErr]
==========================================================================
